---- MODULE Spec2Model ----
(***************************************************************************)
(* Model of app.py, the Reddit Comments Explorer: the parsing of the       *)
(* comma-separated subreddit input, and get_reddit_comments, the bounded   *)
(* multi-source fetch-and-merge loop, one action per step of its loops.    *)
(*                                                                         *)
(* Strings are sequences of one-character strings; timestamps are epoch    *)
(* seconds; the remote API is a fixed content table (world) read through   *)
(* the operators Search, SubmissionAt and CommentsList.                    *)
(***************************************************************************)
EXTENDS Integers, Sequences, FiniteSets, TLC

VARIABLES
    keyword,             \* st.text_input: the keyword widget
    timeframe,           \* st.selectbox: a label of time_mapping
    custom_subs,         \* st.text_input: the comma-separated subreddits
    selected_subreddits, \* line 80: the parsed list, or None
    world,               \* the API's content: subreddit name -> feed id
    pc,                  \* position of the script / of get_reddit_comments
    target_subreddits,   \* line 38
    start_date,          \* line 36
    end_date,            \* line 35
    i,                   \* index in target_subreddits of the source in hand
    j,                   \* index of the submission in hand in the search result
    k,                   \* index of the comment in hand in the expanded list
    comments_data,       \* line 34: the records collected so far
    exc,                 \* the exception in flight inside the try block
    warnings,            \* the st.warning calls of line 65, in order
    comments,            \* line 85: the value get_reddit_comments returned
    origin,              \* history: <<i, j, k>> of each record of comments_data
    attempted,           \* history: the sources whose search was issued
    expanded,            \* history: <<i, j>> of each replace_more call
    raised,              \* history: the positions i whose processing raised
    prev,                \* history: the previous query, for comparison
    typed                \* history: the entries typed into custom_subs

vars == <<keyword, timeframe, custom_subs, selected_subreddits, world, pc,
          target_subreddits, start_date, end_date, i, j, k, comments_data,
          exc, warnings, comments, origin, attempted, expanded, raised, prev,
          typed>>

-----------------------------------------------------------------------------
(* Bounds of the model *)

\* most raw entries of a custom_subs input of SpecParse
MaxEntries == 7
\* comments a bulk submission holds beyond the cap
BulkExtra == 1

-----------------------------------------------------------------------------
(* Program constants *)

\* lines 60, 62: len(comments_data) >= 100
Cap == 100
\* line 80: [:5]
MaxSubs == 5
\* timedelta(days=days), in seconds
SecondsPerDay == 86400

\* lines 19-24
time_mapping ==
    [label \in {"1 Month", "3 Months", "6 Months", "12 Months"} |->
        CASE label = "1 Month" -> 30
          [] label = "3 Months" -> 90
          [] label = "6 Months" -> 180
          [] label = "12 Months" -> 365]

\* datetime.utcnow() of line 35, an instant in the middle of a day
Now == 20000 * SecondsPerDay + 4321

\* Python's None and a present list, for selected_subreddits
None == [isNone |-> TRUE, list |-> <<>>]
Some(l) == [isNone |-> FALSE, list |-> l]

-----------------------------------------------------------------------------
(* String functions *)

Min(a, b) == IF a <= b THEN a ELSE b

\* str.lower on one character
LowerChar(c) ==
    CASE c = "A" -> "a"
      [] c = "B" -> "b"
      [] c = "X" -> "x"
      [] OTHER -> c

\* str.lower
Lower(s) == [n \in 1..Len(s) |-> LowerChar(s[n])]

\* Python's `needle in hay` on strings
StrIn(needle, hay) ==
    \E p \in 0..(Len(hay) - Len(needle)) :
        SubSeq(hay, p + 1, p + Len(needle)) = needle

\* the characters str.strip removes
IsSpace(c) == c \in {" ", "\t"}

RECURSIVE LStrip(_)
LStrip(s) ==
    IF s /= <<>> /\ IsSpace(Head(s)) THEN LStrip(Tail(s)) ELSE s

RECURSIVE RStrip(_)
RStrip(s) ==
    IF s /= <<>> /\ IsSpace(s[Len(s)])
    THEN RStrip(SubSeq(s, 1, Len(s) - 1))
    ELSE s

\* str.strip
Strip(s) == RStrip(LStrip(s))

\* str.split(","): the pieces between the commas, empty ones included
RECURSIVE Split(_)
Split(s) ==
    IF \E p \in 1..Len(s) : s[p] = ","
    THEN LET p == CHOOSE q \in 1..Len(s) :
                      s[q] = "," /\ \A r \in 1..(q - 1) : s[r] /= ","
         IN  <<SubSeq(s, 1, p - 1)>> \o Split(SubSeq(s, p + 1, Len(s)))
    ELSE <<s>>

\* [s.strip() for s in pieces if s.strip()]
RECURSIVE StripNonEmpty(_)
StripNonEmpty(pieces) ==
    IF pieces = <<>> THEN <<>>
    ELSE IF Strip(Head(pieces)) /= <<>>
         THEN <<Strip(Head(pieces))>> \o StripNonEmpty(Tail(pieces))
         ELSE StripNonEmpty(Tail(pieces))

\* the slice [:n]
Take(s, n) == SubSeq(s, 1, Min(n, Len(s)))

\* line 80 with the slice taken before the blank entries are dropped
ParseSubsSliceFirst(text) ==
    IF text /= <<>>
    THEN Some(StripNonEmpty(Take(Split(text), MaxSubs)))
    ELSE None

\* line 80
ParseSubs(text) ==
    IF text /= <<>>
    THEN Some(Take(StripNonEmpty(Split(text)), MaxSubs))
    ELSE None

-----------------------------------------------------------------------------
(* The remote API: what reddit.subreddit(sub).search(...) and                *)
(* submission.comments return.  A feed is the result of one search; the      *)
(* feeds below are the contents the model draws from.                        *)

\* the default source of line 38
AllName == <<"a", "l", "l">>

\* the day counts of time_mapping, in the order of its keys
DaysSeq == <<time_mapping["1 Month"], time_mapping["3 Months"],
             time_mapping["6 Months"], time_mapping["12 Months"]>>

\* a comment as the API gives it (its permalink is added by CommentsList)
Cmt(body, t, score) == [body |-> body, created_utc |-> t, score |-> score]

\* a comment inside every window, whose body holds every keyword
GoodComment == Cmt(<<"a", "b">>, Now - 1, 7)

\* comments created at, and one second before, the start of each window, then
\* at and one second after the time of the query, then two recent ones
EdgeComments ==
    [n \in 1..(2 * Len(DaysSeq)) |->
        Cmt(<<"x", "A", "B">>,
            Now - DaysSeq[(n + 1) \div 2] * SecondsPerDay - ((n + 1) % 2),
            n - 3)]
    \o <<Cmt(<<"a", "b">>, Now, 0),
         Cmt(<<"A", "b", "x">>, Now + 1, 2),
         Cmt(<<"b", "a">>, Now - 1, -1),
         Cmt(<<"x", "a">>, Now - 1, 5)>>

Subm(title, t, boom, cs) ==
    [title |-> title, created_utc |-> t, boom |-> boom, comments |-> cs]

\* recent, with the edge comments
SubEdge == Subm(<<"A", "b">>, Now, FALSE, EdgeComments)
\* created exactly at the start of the shortest window, more good comments than the cap
SubBulk ==
    Subm(<<"a", "b", "x">>, Now - DaysSeq[1] * SecondsPerDay, FALSE,
         [n \in 1..(Cap + BulkExtra) |-> GoodComment])
\* created one second before the start of the shortest window, one good comment
SubOld ==
    Subm(<<"a", "b">>, Now - DaysSeq[1] * SecondsPerDay - 1, FALSE,
         <<GoodComment>>)
\* recent, one good comment
SubOne == Subm(<<"x", "a", "b">>, Now - 1, FALSE, <<GoodComment>>)
\* recent, no comment
SubEmpty == Subm(<<"a", "b">>, Now - 1, FALSE, <<>>)
\* recent, replace_more raises
SubBoom == Subm(<<"a", "b">>, Now - 1, TRUE, <<GoodComment>>)

MkFeed(searchRaises, iterRaisesAt, subs) ==
    [searchRaises |-> searchRaises, iterRaisesAt |-> iterRaisesAt,
     submissions |-> subs]

FeedIds == {"empty", "down", "edge", "bulk", "old", "boom", "cut", "quiet"}

\* iterRaisesAt = n: fetching the n-th submission raises (0: never)
FeedOf(id) ==
    CASE id = "empty" -> MkFeed(FALSE, 0, <<>>)
      [] id = "down"  -> MkFeed(TRUE, 0, <<>>)
      [] id = "edge"  -> MkFeed(FALSE, 0, <<SubEdge>>)
      [] id = "bulk"  -> MkFeed(FALSE, 0, <<SubBulk, SubOne>>)
      [] id = "old"   -> MkFeed(FALSE, 0, <<SubOld, SubOne>>)
      [] id = "boom"  -> MkFeed(FALSE, 0, <<SubOne, SubBoom, SubOne>>)
      [] id = "cut"   -> MkFeed(FALSE, 2, <<SubOne, SubOne>>)
      [] id = "quiet" -> MkFeed(FALSE, 0, <<SubEmpty, SubOne>>)

\* reddit.subreddit(sub).search(query, sort="top", limit=100, time_filter="year")
Search(sub) == FeedOf(world[sub])

\* the submission the iteration of line 43 yields at index n
SubmissionAt(sub, n) == Search(sub).submissions[n]

\* submission.subreddit.display_name
DisplayName(sub) == IF sub = AllName THEN <<"p", "y">> ELSE sub

\* submission.comments.list() after replace_more(limit=0)
CommentsList(sub, n) ==
    LET cs == SubmissionAt(sub, n).comments
    IN  [m \in 1..Len(cs) |->
            [body |-> cs[m].body, created_utc |-> cs[m].created_utc,
             score |-> cs[m].score, permalink |-> <<sub, n, m>>]]

-----------------------------------------------------------------------------
(* get_reddit_comments, lines 33-66 *)

\* the window with its start excluded
InWindowOpenStart(t, lo, hi) == lo < t /\ t <= hi

\* start_date <= t <= end_date, lines 45 and 51
InWindow(t, lo, hi) == lo <= t /\ t <= hi

\* the match of line 51 without the two lower() calls
KeywordInExact(kw, body) == StrIn(kw, body)

\* keyword.lower() in comment.body.lower(), line 51
KeywordIn(kw, body) == StrIn(Lower(kw), Lower(body))

\* the condition of line 51
Accepts(comment) ==
    /\ KeywordIn(keyword, comment.body)
    /\ InWindow(comment.created_utc, start_date, end_date)

\* the test of lines 60 and 62 with > for >=
CapExceeded(data) == Len(data) > Cap

\* len(comments_data) >= 100, lines 60 and 62
CapReached(data) == Len(data) >= Cap

\* datetime.date(): the day of an instant
Date(t) == t \div SecondsPerDay

\* the dict of lines 52-59
Record(sub, n, comment) ==
    [Comment |-> comment.body,
     Score |-> comment.score,
     SubmissionTitle |-> SubmissionAt(sub, n).title,
     Subreddit |-> DisplayName(sub),
     Permalink |-> <<"https://reddit.com", comment.permalink>>,
     Created |-> Date(comment.created_utc)]

\* the source, the submission and the expanded list in hand
Sub == target_subreddits[i]
Comments == CommentsList(Sub, j)

\* lines 33-38: the call of line 85 on the parsed input
BeginFetch(text) ==
    LET parsed == ParseSubs(text)
        days == time_mapping[timeframe]
    IN  /\ custom_subs' = text
        /\ selected_subreddits' = parsed
        /\ comments_data' = <<>>
        /\ end_date' = Now
        /\ start_date' = Now - days * SecondsPerDay
        /\ target_subreddits' =
               IF parsed.list /= <<>> THEN parsed.list ELSE <<AllName>>
        /\ i' = 1 /\ j' = 0 /\ k' = 0
        /\ pc' = "for_sub"
        /\ exc' = "none"
        /\ warnings' = <<>>
        /\ comments' = <<>>
        /\ origin' = <<>> /\ attempted' = <<>> /\ expanded' = <<>>
        /\ raised' = {}

\* lines 75-83: the run of the script that follows an edit of the inputs (the
\* button is not pressed, or is pressed with no keyword): the inputs are parsed
RunScript ==
    /\ pc \in {"edited", "idle"}
    /\ selected_subreddits' = ParseSubs(custom_subs)
    /\ pc' = "idle"
    /\ UNCHANGED <<keyword, timeframe, custom_subs, world,
                   target_subreddits, start_date, end_date, i, j, k,
                   comments_data, exc, warnings, comments, origin, attempted,
                   expanded, raised, prev, typed>>

\* lines 83-85: the button is pressed with a keyword
FetchComments ==
    /\ pc = "idle"
    /\ keyword /= <<>>
    /\ BeginFetch(custom_subs)
    /\ UNCHANGED <<keyword, timeframe, world, prev, typed>>

\* lines 40-42: the next source is searched
SearchSource ==
    /\ pc = "for_sub"
    /\ i <= Len(target_subreddits)
    /\ attempted' = Append(attempted, Sub)
    /\ IF Search(Sub).searchRaises
       THEN /\ exc' = "search" /\ pc' = "except"
            /\ raised' = raised \cup {i}
            /\ j' = j
       ELSE /\ exc' = exc /\ pc' = "for_submission"
            /\ raised' = raised
            /\ j' = 1
    /\ UNCHANGED <<keyword, timeframe, custom_subs, selected_subreddits,
                   world, target_subreddits, start_date, end_date, i, k,
                   comments_data, warnings, comments, origin, expanded, prev,
                   typed>>

\* line 43: the iteration of the search result raises
IterationRaises ==
    /\ pc = "for_submission"
    /\ Search(Sub).iterRaisesAt = j
    /\ exc' = "iteration" /\ pc' = "except"
    /\ raised' = raised \cup {i}
    /\ UNCHANGED <<keyword, timeframe, custom_subs, selected_subreddits,
                   world, target_subreddits, start_date, end_date, i, j, k,
                   comments_data, warnings, comments, origin, attempted,
                   expanded, prev, typed>>

\* line 43: the search result is exhausted, the loop of line 40 goes on
SubmissionsEnd ==
    /\ pc = "for_submission"
    /\ Search(Sub).iterRaisesAt /= j
    /\ j > Len(Search(Sub).submissions)
    /\ i' = i + 1 /\ pc' = "for_sub"
    /\ UNCHANGED <<keyword, timeframe, custom_subs, selected_subreddits,
                   world, target_subreddits, start_date, end_date, j, k,
                   comments_data, exc, warnings, comments, origin, attempted,
                   expanded, raised, prev, typed>>

\* lines 44-46: a submission created outside the window is passed over
SkipSubmission ==
    /\ pc = "for_submission"
    /\ Search(Sub).iterRaisesAt /= j
    /\ j <= Len(Search(Sub).submissions)
    /\ ~InWindow(SubmissionAt(Sub, j).created_utc, start_date, end_date)
    /\ j' = j + 1
    /\ UNCHANGED <<keyword, timeframe, custom_subs, selected_subreddits,
                   world, pc, target_subreddits, start_date, end_date, i, k,
                   comments_data, exc, warnings, comments, origin, attempted,
                   expanded, raised, prev, typed>>

\* lines 44-48: the comment tree of a submission inside the window is expanded
ExpandSubmission ==
    /\ pc = "for_submission"
    /\ Search(Sub).iterRaisesAt /= j
    /\ j <= Len(Search(Sub).submissions)
    /\ InWindow(SubmissionAt(Sub, j).created_utc, start_date, end_date)
    /\ expanded' = Append(expanded, <<i, j>>)
    /\ IF SubmissionAt(Sub, j).boom
       THEN /\ exc' = "replace_more" /\ pc' = "except"
            /\ raised' = raised \cup {i}
            /\ k' = k
       ELSE /\ exc' = exc /\ pc' = "for_comment"
            /\ raised' = raised
            /\ k' = 1
    /\ UNCHANGED <<keyword, timeframe, custom_subs, selected_subreddits,
                   world, target_subreddits, start_date, end_date, i, j,
                   comments_data, warnings, comments, origin, attempted, prev,
                   typed>>

\* lines 49-63: one comment of the expanded list
NextComment ==
    /\ pc = "for_comment"
    /\ k <= Len(Comments)
    /\ LET comment == Comments[k]
           data == IF Accepts(comment)
                   THEN Append(comments_data, Record(Sub, j, comment))
                   ELSE comments_data
       IN  /\ comments_data' = data
           /\ origin' = IF Accepts(comment)
                        THEN Append(origin, <<i, j, k>>)
                        ELSE origin
           /\ IF CapReached(data)
              THEN \* lines 60-63: both breaks, then the next source
                   /\ i' = i + 1 /\ pc' = "for_sub"
                   /\ k' = k
              ELSE /\ i' = i /\ pc' = pc
                   /\ k' = k + 1
    /\ UNCHANGED <<keyword, timeframe, custom_subs, selected_subreddits,
                   world, target_subreddits, start_date, end_date, j, exc,
                   warnings, comments, attempted, expanded, raised, prev, typed>>

\* lines 49, 62-63: the expanded list is exhausted
CommentsEnd ==
    /\ pc = "for_comment"
    /\ k > Len(Comments)
    /\ IF CapReached(comments_data)
       THEN /\ i' = i + 1 /\ pc' = "for_sub"
            /\ j' = j
       ELSE /\ i' = i /\ pc' = "for_submission"
            /\ j' = j + 1
    /\ UNCHANGED <<keyword, timeframe, custom_subs, selected_subreddits,
                   world, target_subreddits, start_date, end_date, k,
                   comments_data, exc, warnings, comments, origin, attempted,
                   expanded, raised, prev, typed>>

\* an except clause that does not match the exception: it leaves the function
ExceptNotCaught ==
    /\ pc = "except"
    /\ pc' = "propagated"
    /\ UNCHANGED <<keyword, timeframe, custom_subs, selected_subreddits,
                   world, target_subreddits, start_date, end_date, i, j, k,
                   comments_data, exc, warnings, comments, origin, attempted,
                   expanded, raised, prev, typed>>

\* a handler that also drops what the failing source had appended
ExceptDropsSource ==
    /\ pc = "except"
    /\ warnings' = Append(warnings, [sub |-> Sub, e |-> exc])
    /\ exc' = "none"
    /\ i' = i + 1 /\ pc' = "for_sub"
    /\ LET keep == {r \in DOMAIN origin : origin[r][1] /= i}
           n == Cardinality(keep)
       IN  /\ comments_data' = SubSeq(comments_data, 1, n)
           /\ origin' = SubSeq(origin, 1, n)
    /\ UNCHANGED <<keyword, timeframe, custom_subs, selected_subreddits,
                   world, target_subreddits, start_date, end_date, j, k,
                   comments, attempted, expanded, raised, prev, typed>>

\* a handler that starts the list again
ExceptClearsAll ==
    /\ pc = "except"
    /\ warnings' = Append(warnings, [sub |-> Sub, e |-> exc])
    /\ exc' = "none"
    /\ i' = i + 1 /\ pc' = "for_sub"
    /\ comments_data' = <<>>
    /\ origin' = <<>>
    /\ UNCHANGED <<keyword, timeframe, custom_subs, selected_subreddits,
                   world, target_subreddits, start_date, end_date, j, k,
                   comments, attempted, expanded, raised, prev, typed>>

\* lines 64-65: the exception is caught, the loop of line 40 goes on
ExceptHandler ==
    /\ pc = "except"
    /\ warnings' = Append(warnings, [sub |-> Sub, e |-> exc])
    /\ exc' = "none"
    /\ i' = i + 1 /\ pc' = "for_sub"
    /\ UNCHANGED <<keyword, timeframe, custom_subs, selected_subreddits,
                   world, target_subreddits, start_date, end_date, j, k,
                   comments_data, comments, origin, attempted, expanded,
                   raised, prev, typed>>

\* line 66, and the assignment of line 85
Return ==
    /\ pc = "for_sub"
    /\ i > Len(target_subreddits)
    /\ comments' = comments_data
    /\ pc' = "done"
    /\ UNCHANGED <<keyword, timeframe, custom_subs, selected_subreddits,
                   world, target_subreddits, start_date, end_date, i, j, k,
                   comments_data, exc, warnings, origin, attempted, expanded,
                   raised, prev, typed>>

-----------------------------------------------------------------------------
(* The inputs *)

\* one comma-separated entry as typed: a name (without surrounding blanks or
\* commas, possibly empty) between two runs of blanks
Entry(padl, name, padr) == [padl |-> padl, name |-> name, padr |-> padr]
EntryText(e) == e.padl \o e.name \o e.padr

\* the text of the input box: the entries, comma-separated
RECURSIVE JoinEntries(_)
JoinEntries(es) ==
    IF es = <<>> THEN <<>>
    ELSE IF Len(es) = 1 THEN EntryText(es[1])
    ELSE EntryText(es[1]) \o <<",">> \o JoinEntries(Tail(es))

A == Entry(<<>>, <<"a">>, <<>>)
B == Entry(<<" ">>, <<"b">>, <<"\t">>)
Blank == Entry(<<" ">>, <<>>, <<>>)

\* the entries SpecParse draws from
RawEntries ==
    {Entry(<<>>, <<>>, <<>>), Blank, B,
     Entry(<<>>, <<"a", " ", "b">>, <<" ">>)}

\* all sequences over S of length at most n
SeqsUpTo(S, n) == UNION {[1..m -> S] : m \in 0..n}

\* the inputs of Spec: no source, one, two in both orders, three with a
\* blank entry between, and six, of which line 80 keeps five
TypedInputs ==
    {<<>>, <<A>>, <<A, B>>, <<B, A>>, <<A, Blank, B, A>>,
     <<A, B, A, B, A, B>>}

Keywords == {<<>>, <<"A", "b">>}

Range(f) == {f[x] : x \in DOMAIN f}

\* the names get_reddit_comments is called with on this input
TargetOf(text) ==
    IF ParseSubs(text).list /= <<>> THEN ParseSubs(text).list
    ELSE <<AllName>>

NoPrev ==
    [valid |-> FALSE, target |-> <<>>, comments |-> <<>>, origin |-> <<>>]

InitRest ==
    /\ custom_subs = JoinEntries(typed)
    /\ selected_subreddits = None
    /\ pc = "edited"
    /\ target_subreddits = <<>>
    /\ start_date = 0 /\ end_date = 0
    /\ i = 0 /\ j = 0 /\ k = 0
    /\ comments_data = <<>>
    /\ exc = "none"
    /\ warnings = <<>>
    /\ comments = <<>>
    /\ origin = <<>> /\ attempted = <<>> /\ expanded = <<>>
    /\ raised = {}
    /\ prev = NoPrev

\* the session after the user has filled in the widgets: the first run of the
\* script, on empty inputs, has left selected_subreddits None
Init ==
    /\ typed \in TypedInputs
    /\ keyword \in Keywords
    /\ timeframe \in DOMAIN time_mapping
    /\ world \in [Range(TargetOf(JoinEntries(typed))) -> FeedIds]
    /\ InitRest

\* every input of the subreddits box, and nothing to fetch
InitParse ==
    /\ typed \in SeqsUpTo(RawEntries, MaxEntries)
    /\ keyword = <<>>
    /\ timeframe = "1 Month"
    /\ world = [n \in {} |-> "empty"]
    /\ InitRest

\* the names of the sources that produced a warning
Warned == {warnings[n].sub : n \in DOMAIN warnings}

\* the sources of the query that produced no warning, in order
Kept == SelectSeq(target_subreddits, LAMBDA n : n \notin Warned)

\* the comparison query: the user takes the sources that produced a warning
\* out of the input and presses the button again
FetchAgain ==
    /\ pc = "done"
    /\ ~prev.valid
    /\ Warned /= {}
    /\ Kept /= <<>>
    /\ prev' = [valid |-> TRUE, target |-> target_subreddits,
                comments |-> comments, origin |-> origin]
    /\ typed' = [n \in DOMAIN Kept |-> Entry(<<>>, Kept[n], <<>>)]
    /\ BeginFetch(JoinEntries(typed'))
    /\ UNCHANGED <<keyword, timeframe, world>>

Next ==
    \/ RunScript
    \/ FetchComments
    \/ SearchSource
    \/ IterationRaises
    \/ SubmissionsEnd
    \/ SkipSubmission
    \/ ExpandSubmission
    \/ NextComment
    \/ CommentsEnd
    \/ ExceptHandler
    \/ Return
    \/ FetchAgain

Spec == Init /\ [][Next]_vars

NextParse == RunScript

SpecParse == InitParse /\ [][NextParse]_vars

-----------------------------------------------------------------------------
(* Vocabulary of the properties *)

\* get_reddit_comments is running
InQuery == pc \in {"for_sub", "for_submission", "for_comment", "except"}

IsPrefix(s, t) == Len(s) <= Len(t) /\ SubSeq(t, 1, Len(s)) = s

RECURSIVE Concat(_)
Concat(ss) == IF ss = <<>> THEN <<>> ELSE Head(ss) \o Concat(Tail(ss))

\* the comment and the submission at <<source index, submission, comment>>
CommentAt(o) == CommentsList(target_subreddits[o[1]], o[2])[o[3]]
SubmissionOf(o) == SubmissionAt(target_subreddits[o[1]], o[2])

\* the window of the query as the specification states it
WindowStart == Now - time_mapping[timeframe] * SecondsPerDay
Inside(t) == WindowStart <= t /\ t <= Now

\* the body holds the keyword, letter case aside
HasKeyword(body) ==
    \E p \in 1..(Len(body) + 1) :
        \A q \in 1..Len(keyword) :
            /\ p + q - 1 <= Len(body)
            /\ LowerChar(body[p + q - 1]) = LowerChar(keyword[q])

\* an accepted comment: inside the window and matching the keyword
Wanted(o) ==
    Inside(CommentAt(o).created_utc) /\ HasKeyword(CommentAt(o).body)

\* the accepted comments of submission n of source p, in list order
AcceptedOf(p, n) ==
    SelectSeq([m \in 1..Len(SubmissionAt(target_subreddits[p], n).comments)
                  |-> <<p, n, m>>],
              Wanted)

\* the accepted comments of all returned submissions, in traversal order
AllAccepted ==
    Concat([p \in DOMAIN target_subreddits |->
              Concat([n \in DOMAIN Search(target_subreddits[p]).submissions |->
                        AcceptedOf(p, n)])])

\* the accepted comments of the submissions created inside the window
AcceptedInWindow ==
    Concat([p \in DOMAIN target_subreddits |->
              Concat([n \in DOMAIN Search(target_subreddits[p]).submissions |->
                        IF Inside(SubmissionAt(target_subreddits[p], n).created_utc)
                        THEN AcceptedOf(p, n)
                        ELSE <<>>])])

\* no search, iteration or expansion of a source of the query can raise
NoFaults ==
    \A p \in DOMAIN target_subreddits :
        LET f == Search(target_subreddits[p])
        IN  /\ ~f.searchRaises
            /\ f.iterRaisesAt = 0
            /\ \A n \in DOMAIN f.submissions : ~f.submissions[n].boom

\* the record the specification asks for the comment at o
RecordAt(o) == Record(target_subreddits[o[1]], o[2], CommentAt(o))

\* the records of data that source index p appended
Contribution(orig, data, p) ==
    LET idx == SelectSeq([r \in DOMAIN orig |-> r], LAMBDA r : orig[r][1] = p)
    IN  [n \in DOMAIN idx |-> data[idx[n]]]

-----------------------------------------------------------------------------
(* C1 *)

\* C1: the list get_reddit_comments collects, and the list it returns, has at
\* most 100 records at every point of the collection.
C1_AtMostCap == Len(comments_data) <= Cap /\ Len(comments) <= Cap

-----------------------------------------------------------------------------
(* C2 *)

\* C2: the window is [end_date - days, end_date] with end_date read at the
\* start of the call; every record comes from a comment created inside it;
\* an examined comment created exactly at either end, whose body holds the
\* keyword, is in the list.
C2_Window ==
    /\ (InQuery \/ pc = "done") =>
           end_date = Now /\ start_date = WindowStart
    /\ Len(origin) = Len(comments_data)
    /\ pc = "done" => comments = comments_data
    /\ \A r \in DOMAIN origin :
           LET c == CommentAt(origin[r])
           IN  /\ start_date <= c.created_utc
               /\ c.created_utc <= end_date
               /\ comments_data[r].Permalink[2] = c.permalink
               /\ comments_data[r].Created = c.created_utc \div SecondsPerDay
    /\ pc = "for_comment" =>
           \A m \in 1..(k - 1) :
               LET c == Comments[m]
               IN  (c.created_utc \in {start_date, end_date} /\ HasKeyword(c.body))
                       => \E r \in DOMAIN origin : origin[r] = <<i, j, m>>

\* a returned list with a comment created exactly at each end of the window,
\* from a submission that also held comments one second outside either end
C2_Witness ==
    /\ pc = "done"
    /\ \E r \in DOMAIN origin : CommentAt(origin[r]).created_utc = start_date
    /\ \E r \in DOMAIN origin : CommentAt(origin[r]).created_utc = end_date
    /\ \E r \in DOMAIN origin :
           LET cs == SubmissionOf(origin[r]).comments
           IN  /\ \E m \in DOMAIN cs :
                      cs[m].created_utc = start_date - 1 /\ HasKeyword(cs[m].body)
               /\ \E m \in DOMAIN cs :
                      cs[m].created_utc = end_date + 1 /\ HasKeyword(cs[m].body)

-----------------------------------------------------------------------------
(* C3 *)

\* C3: an exception raised by the search, the iteration or the expansion of a
\* source is caught: it never leaves the function, one warning is emitted per
\* failing source, the sources are attempted in list order, all of them by
\* the time the function returns.
C3_Caught ==
    /\ pc \in {"edited", "idle", "for_sub", "for_submission", "for_comment",
               "except", "done"}
    /\ (InQuery /\ pc /= "for_sub") => i \in DOMAIN target_subreddits
    /\ pc = "except" => exc /= "none" /\ i \in raised
    /\ InQuery =>
           /\ attempted = SubSeq(target_subreddits, 1, Len(attempted))
           /\ Len(attempted) = (IF pc = "for_sub" THEN i - 1 ELSE i)
           /\ Len(warnings) = Cardinality(raised \ (IF pc = "except" THEN {i} ELSE {}))
    /\ pc = "done" =>
           /\ attempted = target_subreddits
           /\ Len(warnings) = Cardinality(raised)
           /\ Warned = {target_subreddits[p] : p \in raised}

\* a returned query of three sources in which a source that is not the last
\* failed, two kinds of exception were caught, and records were collected
C3_Witness ==
    /\ pc = "done"
    /\ Len(target_subreddits) >= 3
    /\ \E p \in raised : p < Len(target_subreddits)
    /\ \E m, n \in DOMAIN warnings : warnings[m].e /= warnings[n].e
    /\ comments /= <<>>

-----------------------------------------------------------------------------
(* C4 *)

\* C4: once the list holds 100 records, no further source is searched, no
\* further submission is expanded and no further record is appended.
C4_StopsAtCap ==
    [][(InQuery /\ Len(comments_data) >= Cap) =>
           /\ attempted' = attempted
           /\ expanded' = expanded
           /\ comments_data' = comments_data]_vars

-----------------------------------------------------------------------------
(* C5 *)

\* C5: when no source fails, the returned list is the first min(100, |A|)
\* accepted comments of A in traversal order, A being the accepted comments
\* of the expanded submissions (those created inside the window).
C5_PrefixOfAccepted ==
    (pc = "done" /\ NoFaults) =>
        /\ origin = Take(AcceptedInWindow, Cap)
        /\ comments = [r \in DOMAIN origin |-> RecordAt(origin[r])]

-----------------------------------------------------------------------------
(* C6 *)

\* C6 as stated: the returned list holds no record collected from a source
\* whose processing raised.
C6_Absent ==
    pc = "done" => \A r \in DOMAIN origin : origin[r][1] \notin raised

\* C6: the step that raises appends and removes nothing, and from then on the
\* records of the failing source stay as they are: none is added, none is
\* removed, up to the return.
C6_KeptAsCollected ==
    [][InQuery =>
           /\ raised' /= raised => comments_data' = comments_data
           /\ \A p \in raised :
                  Contribution(origin', comments_data', p)
                      = Contribution(origin, comments_data, p)
           /\ pc' = "done" => comments' = comments_data]_vars

\* a returned list that holds records of a source that failed
C6_Witness ==
    /\ pc = "done"
    /\ \E p \in raised : Contribution(origin, comments, p) /= <<>>

-----------------------------------------------------------------------------
(* C7 *)

\* the positions, in the previous query, of the sources of this query
KeptPositions ==
    SelectSeq([n \in DOMAIN prev.target |-> n],
              LAMBDA n : prev.target[n] \in Range(target_subreddits))

\* the positions of the previous query that this query leaves out
LeftOut == DOMAIN prev.target \ Range(KeptPositions)

\* a step of the function keeps the records it has
KeepsRecords ==
    InQuery =>
        /\ IsPrefix(comments_data, comments_data')
        /\ pc' = "done" => comments' = comments_data

\* C7 as stated: a record once appended stays where it is, and in the query
\* without the failing sources every other source contributes the same
\* records as it did with them.
C7_NotReduced ==
    /\ [][KeepsRecords]_vars
    /\ [](pc = "done" /\ prev.valid =>
             \A q \in DOMAIN target_subreddits :
                 Contribution(prev.origin, prev.comments, KeptPositions[q])
                     = Contribution(origin, comments, q))

\* C7: a record once appended stays where it is; a source other than the
\* failing ones contributes the same records with and without them, unless
\* the query with them reached the cap, and then a prefix of those records;
\* always the same when the failing sources had appended nothing.
C7_NotReducedButByCap ==
    /\ [][KeepsRecords]_vars
    /\ [](pc = "done" /\ prev.valid =>
             \A q \in DOMAIN target_subreddits :
                 LET with == Contribution(prev.origin, prev.comments,
                                          KeptPositions[q])
                     without == Contribution(origin, comments, q)
                 IN  /\ IsPrefix(with, without)
                     /\ Len(prev.comments) < Cap => with = without
                     /\ (\A p \in LeftOut :
                            Contribution(prev.origin, prev.comments, p) = <<>>)
                            => with = without)

\* both queries have returned; one source failed, after it had appended a
\* record, between two sources that contributed
C7_Witness ==
    /\ pc = "done" /\ prev.valid
    /\ Cardinality(LeftOut) = 1
    /\ \E p \in LeftOut :
           /\ Contribution(prev.origin, prev.comments, p) /= <<>>
           /\ \E q \in DOMAIN target_subreddits :
                  KeptPositions[q] < p /\ Contribution(origin, comments, q) /= <<>>
           /\ \E q \in DOMAIN target_subreddits :
                  KeptPositions[q] > p /\ Contribution(origin, comments, q) /= <<>>

-----------------------------------------------------------------------------
(* C8 *)

\* the names typed that are not empty, in order
TypedNames ==
    SelectSeq([n \in DOMAIN typed |-> typed[n].name], LAMBDA x : x /= <<>>)

\* C8: once the script has run on the input, the list of sources is the
\* first 5, in input order, of the entries that are non-empty after
\* trimming: at most 5 names, none empty, none with a blank at either end.
C8_FirstFive ==
    pc /= "edited" =>
        /\ selected_subreddits.list = Take(TypedNames, MaxSubs)
        /\ Len(selected_subreddits.list) <= MaxSubs
        /\ \A n \in DOMAIN selected_subreddits.list :
               LET name == selected_subreddits.list[n]
               IN  /\ name /= <<>>
                   /\ ~IsSpace(name[1])
                   /\ ~IsSpace(name[Len(name)])

\* more than five names were typed, padded, with a blank entry among the
\* first five entries, and five were kept
C8_Witness ==
    /\ pc /= "edited"
    /\ Len(TypedNames) > MaxSubs
    /\ Len(selected_subreddits.list) = MaxSubs
    /\ \E n \in 1..MaxSubs : typed[n].name = <<>> /\ typed[n].padl /= <<>>
    /\ \E n \in DOMAIN typed : typed[n].name /= <<>> /\ typed[n].padr /= <<>>

-----------------------------------------------------------------------------
(* C9 *)

\* C9 as stated: when no source fails and fewer than 100 comments are
\* accepted in total, the returned list holds every accepted comment of
\* every returned submission, whatever the submission's creation time.
C9_EverySubmission ==
    (pc = "done" /\ warnings = <<>> /\ Len(AllAccepted) < Cap) =>
        \A n \in DOMAIN AllAccepted :
            \E r \in DOMAIN origin :
                origin[r] = AllAccepted[n] /\ comments[r] = RecordAt(origin[r])

\* C9: only submissions created inside the window are expanded; when no
\* source fails and these hold fewer than 100 accepted comments, the
\* returned list holds exactly their accepted comments.
C9_SubmissionsInWindow ==
    /\ \A r \in DOMAIN origin : Inside(SubmissionOf(origin[r]).created_utc)
    /\ \A n \in DOMAIN expanded :
           Inside(SubmissionAt(target_subreddits[expanded[n][1]],
                               expanded[n][2]).created_utc)
    /\ (pc = "done" /\ warnings = <<>> /\ Len(AcceptedInWindow) < Cap) =>
           /\ origin = AcceptedInWindow
           /\ comments = [r \in DOMAIN origin |-> RecordAt(origin[r])]

\* a returned list, no failure, under the cap: a submission created before
\* the window held an accepted comment, and a comment was accepted whose
\* body matches the keyword only with the letter case put aside
C9_Witness ==
    /\ pc = "done" /\ warnings = <<>>
    /\ Len(AcceptedInWindow) < Cap
    /\ Len(AllAccepted) > Len(AcceptedInWindow)
    /\ \E r \in DOMAIN comments : ~StrIn(keyword, comments[r].Comment)

-----------------------------------------------------------------------------
(* C10 *)

\* C10: the list never has more than 100 + (n - 1) records for n sources,
\* so never more than 104; past the 100th, no two records come from the
\* same source.
C10_Overshoot ==
    (InQuery \/ pc = "done") =>
        /\ Len(comments_data) <= Cap + (Len(target_subreddits) - 1)
        /\ Len(comments_data) <= Cap + (MaxSubs - 1)
        /\ Len(comments) <= Cap + (Len(target_subreddits) - 1)
        /\ \A r1, r2 \in DOMAIN origin :
               (Cap < r1 /\ r1 < r2) => origin[r1][1] /= origin[r2][1]

\* five sources, and a returned list of 104 records
C10_Witness ==
    /\ pc = "done"
    /\ Len(target_subreddits) = MaxSubs
    /\ Len(comments) = Cap + (MaxSubs - 1)

====
